---- MODULE Spec2Model ----
(***************************************************************************)
(* QuizGenius AI (src/app.py): scrape news, generate quiz questions with a *)
(* remote model, keep one pickled snapshot, push the snapshot's questions  *)
(* row by row to a remote table.                                           *)
(*                                                                         *)
(* Every function of app.py is an operator that computes the function's    *)
(* result and effects from its arguments and from the outcomes of the      *)
(* external calls it makes (HTTP fetch, model call, insert, file I/O,      *)
(* random.shuffle), which the actions draw from bounded sets.              *)
(***************************************************************************)
EXTENDS Integers, Sequences, FiniteSets, TLC

VARIABLES
    snapshot,   \* the file "questions.pkl": NoFile, or the bytes it holds
    table,      \* the rows of the remote table "daily_genai_quiz"
    call,       \* the last operation run and its arguments
    out,        \* what that operation returned, reported and did
    saved       \* history: the state of the last write of the snapshot ("none",
                \* "ok", or "torn" when a dump broke off), the list last dumped,
                \* whether it replaced another list, and whether a generate
                \* action has since ended without writing

vars == <<snapshot, table, call, out, saved>>

-----------------------------------------------------------------------------
(* Bounds of the model *)

MaxQuestions == 2      \* longest question list generated or pushed
MaxArticles == 6       \* most story boxes one fetched page holds
MaxRows == 2           \* the remote table stops accepting pushes beyond this
MaxMainRows == 1       \* and the pushes of main() beyond this

\* the slice of line 80
NewsCap == 10

-----------------------------------------------------------------------------
(* Python values *)

None == "None"

\* bool(s) of an Optional[str]
TruthyStr(s) == s # None /\ s # ""

\* bool(n) of an int
TruthyInt(n) == n # 0

\* bool(l) of a list
TruthyList(l) == Len(l) > 0

Range(f) == {f[i] : i \in DOMAIN f}

RECURSIVE Concat(_)
Concat(ss) == IF ss = <<>> THEN <<>> ELSE Head(ss) \o Concat(Tail(ss))

\* the bag (multiset) of a sequence's elements, as a function value -> count
BagOf(s) == [v \in Range(s) |-> Cardinality({i \in DOMAIN s : s[i] = v})]

-----------------------------------------------------------------------------
(* The data model, lines 19-31.  An Option is [text, correct]; a            *)
(* QuizQuestion VALUE is [question, options, news_context, tags, metadata]  *)
(* with options a sequence of Options and metadata a sequence of            *)
(* <<key, value>> pairs; a QuizQuestionList value is the sequence of its    *)
(* questions.                                                               *)

Option(t, c) == [text |-> t, correct |-> c]

QuizQuestion(q, os, nc, tg, md) ==
    [question |-> q, options |-> os, news_context |-> nc, tags |-> tg, metadata |-> md]

\* The questions the remote model may hand back: one with two options and a
\* metadata entry of its own, one with no options and the field defaults.
QuestionUniverse ==
    { QuizQuestion("q1", <<Option("a", TRUE), Option("b", FALSE)>>, "n1", <<"ai">>,
                   << <<"source", "llm">> >>),
      QuizQuestion("q3", <<>>, "", <<>>, <<>>) }

\* For the calls of shuffle_options alone, also a question with three
\* options, two of them equal, and a question with a single option.
WideUniverse ==
    QuestionUniverse \cup
    { QuizQuestion("q2", <<Option("c", FALSE), Option("d", TRUE), Option("c", FALSE)>>,
                   "n2", <<"ai", "ml">>, <<>>),
      QuizQuestion("q4", <<Option("e", TRUE)>>, "n4", <<>>, <<>>) }

SeqsUpTo(S, n) == UNION {[1..k -> S] : k \in 0..n}

QuestionLists == SeqsUpTo(QuestionUniverse, MaxQuestions)

(* Python objects.  A heap holds the QuizQuestion objects and the list      *)
(* objects their options fields point to: heap.obj[i] is object i, whose    *)
(* options field is the index in heap.lst of a list of Options.             *)

EmptyHeap == [obj |-> <<>>, lst |-> <<>>]

\* Build the objects of a question list value: one new list and one new
\* object per question.  Returns the heap and the object ids.
RECURSIVE Construct(_, _)
Construct(qs, h) ==
    IF qs = <<>> THEN [heap |-> h, ids |-> <<>>]
    ELSE LET q == Head(qs)
             h1 == [obj |-> Append(h.obj, [q EXCEPT !.options = Len(h.lst) + 1]),
                    lst |-> Append(h.lst, q.options)]
             rest == Construct(Tail(qs), h1)
         IN  [heap |-> rest.heap, ids |-> <<Len(h.obj) + 1>> \o rest.ids]

\* question.dict() (line 106): the object as a plain value, lists followed.
Dict(h, id) == [h.obj[id] EXCEPT !.options = h.lst[h.obj[id].options]]

\* the value of a list of question objects
Values(h, ids) == [i \in DOMAIN ids |-> Dict(h, ids[i])]

-----------------------------------------------------------------------------
(* shuffle_options, lines 83-93 *)

\* the permutations of 1..n: the orders random.shuffle may leave n elements in
Perms(n) == {p \in [1..n -> 1..n] : \A i, j \in 1..n : p[i] = p[j] => i = j}

\* one permutation per question of the list
PermSeqs(qs) ==
    {ps \in [DOMAIN qs -> UNION {Perms(Len(qs[i].options)) : i \in DOMAIN qs}] :
        \A i \in DOMAIN qs : ps[i] \in Perms(Len(qs[i].options))}

\* Faulty variant: a shuffle that draws every element from the first drawn position
RandomShuffleRepeats(xs, p) == [i \in DOMAIN xs |-> xs[p[1]]]

\* random.shuffle(xs) (line 91) with outcome p: the list object xs is reordered
\* in place.
RandomShuffle(xs, p) == [i \in DOMAIN xs |-> xs[p[i]]]

\* mcq.model_copy() (line 89): a new object whose fields hold the same values
\* as mcq's, so its options field points to the same list object.
ModelCopy(h, id) ==
    [heap |-> [h EXCEPT !.obj = Append(@, h.obj[id])], id |-> Len(h.obj) + 1]

RECURSIVE ShuffleLoop(_, _, _, _, _)
ShuffleLoop(h, mcq_list, perms, i, shuffled_questions) ==
    IF i > Len(mcq_list) THEN [heap |-> h, ids |-> shuffled_questions]
    ELSE LET c == ModelCopy(h, mcq_list[i])
             l == c.heap.obj[c.id].options
             h2 == IF TruthyList(c.heap.lst[l])
                   THEN [c.heap EXCEPT !.lst[l] = RandomShuffle(@, perms[i])]
                   ELSE c.heap
         IN  ShuffleLoop(h2, mcq_list, perms, i + 1, Append(shuffled_questions, c.id))

\* Returns the heap after the call and the ids of the returned objects.
shuffle_options(h, mcq_list, perms) ==
    IF ~TruthyList(mcq_list) THEN [heap |-> h, ids |-> <<>>]
    ELSE ShuffleLoop(h, mcq_list, perms, 1, <<>>)

-----------------------------------------------------------------------------
(* push_to_db, lines 96-113 *)

Creds == {None, "", "k"}

Sources == {"Scraped News", "Custom Text"}

\* what client.table(...).insert(row).execute() may do: insert the row, answer
\* with an error response, or raise
InsertOutcomes == {"ok", "error", "raise"}

\* Faulty variant: the row without line 107: the question's own metadata is kept
RowKeepsMetadata(h, id, content_source) == Dict(h, id)

\* the row of line 106-107: the question as a dict, its metadata replaced
Row(h, id, content_source) ==
    [Dict(h, id) EXCEPT !.metadata = << <<"source", content_source>> >>]

\* The loop of lines 105-111, from question i on.  st is [table, ui, log].  An
\* insert that raises leaves the loop for the handler of line 112.
RECURSIVE InsertLoop(_, _, _, _, _, _)
InsertLoop(h, ids, i, content_source, inserts, st) ==
    IF i > Len(ids) THEN st
    ELSE LET row == Row(h, ids[i], content_source)
             ev == [call |-> "insert", row |-> row, outcome |-> inserts[i]]
         IN  CASE inserts[i] = "raise" ->
                    [st EXCEPT !.log = Append(@, ev),
                               !.ui = Append(@, "Failed to insert questions")]
               [] inserts[i] = "error" ->
                    InsertLoop(h, ids, i + 1, content_source, inserts,
                               [st EXCEPT !.log = Append(@, ev),
                                          !.ui = Append(@, "Database error")])
               [] OTHER ->
                    InsertLoop(h, ids, i + 1, content_source, inserts,
                               [st EXCEPT !.log = Append(@, ev),
                                          !.table = Append(@, row)])

\* the guard of line 97
PushGuard(questions, supabase_url, supabase_key) ==
    TruthyStr(supabase_url) /\ TruthyStr(supabase_key) /\ TruthyList(questions)

\* questions is the list of object ids of questions.questions; client says
\* whether create_client returns (TRUE) or raises; perms and inserts are the
\* outcomes of the shuffles and of the inserts.  Returns [heap, table, ui, log].
push_to_db(h, tbl, questions, supabase_url, supabase_key, content_source, client, perms, inserts) ==
    IF ~PushGuard(questions, supabase_url, supabase_key)
    THEN [heap |-> h, table |-> tbl, log |-> <<>>,
          ui |-> <<"Missing required parameters for database push">>]
    ELSE IF ~client
    THEN [heap |-> h, table |-> tbl,
          log |-> <<[call |-> "create_client", outcome |-> "raise"]>>,
          ui |-> <<"Failed to insert questions">>]
    ELSE LET s == shuffle_options(h, questions, perms)
             r == InsertLoop(s.heap, s.ids, 1, content_source, inserts,
                             [table |-> tbl, ui |-> <<>>,
                              log |-> <<[call |-> "create_client", outcome |-> "ok"]>>])
         IN  [heap |-> s.heap, table |-> r.table, log |-> r.log, ui |-> r.ui]

-----------------------------------------------------------------------------
(* The state after construction, and the calls of shuffle_options and      *)
(* push_to_db with arguments and outcomes drawn from the bounded sets.     *)

\* a file: whether it exists and the bytes it holds
NoFile == [exists |-> FALSE, bytes |-> <<>>]

\* no save_questions has completed yet
NeverSaved == [state |-> "none", questions |-> <<>>, replaced |-> FALSE, unsaved |-> FALSE]

Init ==
    /\ snapshot = NoFile
    /\ table = <<>>
    /\ call = [op |-> "init"]
    /\ out = [ui |-> <<>>, log |-> <<>>]
    /\ saved = NeverSaved

CallShuffle ==
    \E qs \in SeqsUpTo(WideUniverse, MaxQuestions) : \E perms \in PermSeqs(qs) :
        LET c == Construct(qs, EmptyHeap)
            r == shuffle_options(c.heap, c.ids, perms)
        IN  /\ call' = [op |-> "shuffle_options", mcq_list |-> qs]
            /\ out' = [ui |-> <<>>, log |-> <<>>,
                       ret |-> Values(r.heap, r.ids),
                       input |-> Values(r.heap, c.ids),
                       perms |-> perms]
            /\ UNCHANGED <<snapshot, table, saved>>

ShuffleNext == CallShuffle

SpecShuffle == Init /\ [][ShuffleNext]_vars

\* The outcomes of the inserts a push of n rows makes: one per insert, none
\* after an insert that raises.
InsertOutcomeSeqs(n) ==
    {s \in SeqsUpTo(InsertOutcomes, n) :
        /\ \A i \in 1..(Len(s) - 1) : s[i] # "raise"
        /\ Len(s) < n => (Len(s) > 0 /\ s[Len(s)] = "raise")}

CallPush ==
    \E qs \in QuestionLists, url \in Creds, key \in Creds, src \in Sources :
      /\ Len(table) + Len(qs) <= MaxRows
      /\ \E client \in (IF PushGuard(qs, url, key) THEN BOOLEAN ELSE {TRUE}) :
         \E perms \in (IF PushGuard(qs, url, key) /\ client THEN PermSeqs(qs) ELSE {<<>>}),
            inserts \in (IF PushGuard(qs, url, key) /\ client
                         THEN InsertOutcomeSeqs(Len(qs)) ELSE {<<>>}) :
            \E c \in {Construct(qs, EmptyHeap)} :
            \E r \in {push_to_db(c.heap, table, c.ids, url, key, src,
                                client, perms, inserts)} :
                /\ table' = r.table
                /\ call' = [op |-> "push_to_db", questions |-> qs,
                            supabase_url |-> url, supabase_key |-> key,
                            content_source |-> src, before |-> table,
                            again |-> /\ call.op = "push_to_db"
                                      /\ call.questions = qs
                                      /\ call.content_source = src
                                      /\ Len(table) = Len(call.before) + Len(qs)]
                /\ out' = [ui |-> r.ui, log |-> r.log,
                           input |-> Values(r.heap, c.ids)]
                /\ UNCHANGED <<snapshot, saved>>

PushNext == CallPush

SpecPush == Init /\ [][PushNext]_vars

-----------------------------------------------------------------------------
(* Properties of shuffle_options and push_to_db *)

\* the fields of a question other than its options
NonOptionFields(q) == [q EXCEPT !.options = <<>>]

\* the insert events of a log
Inserts(log) == SelectSeq(log, LAMBDA e : e.call = "insert")

\* C2: shuffle_options does not mutate its input: after the call each input
\* question's options are in the order they had before the call.
C2_InputNotMutated ==
    call.op = "shuffle_options" => out.input = call.mcq_list

\* C3: shuffle_options returns as many questions as it was given, in the same
\* order, each with the same multiset of Option values as the input question
\* at its place and the same question, news_context, tags and metadata.
C3_ShufflePreserves ==
    call.op = "shuffle_options" =>
        /\ Len(out.ret) = Len(call.mcq_list)
        /\ \A i \in DOMAIN call.mcq_list :
              /\ BagOf(out.ret[i].options) = BagOf(call.mcq_list[i].options)
              /\ NonOptionFields(out.ret[i]) = NonOptionFields(call.mcq_list[i])

\* a call on two questions whose options both came back in another order,
\* one of them with two equal options
C3_Witness ==
    /\ call.op = "shuffle_options"
    /\ Len(call.mcq_list) = 2
    /\ \A i \in 1..2 : out.ret[i].options # call.mcq_list[i].options
    /\ \E i \in 1..2 : Len(call.mcq_list[i].options) = 3

\* C1: once push_to_db has its client, an insert is attempted for every
\* question of the list, whichever inserts fail and however they fail.
C1_EveryInsertAttempted ==
    ( /\ call.op = "push_to_db"
      /\ PushGuard(call.questions, call.supabase_url, call.supabase_key)
      /\ out.log[1].outcome = "ok" )
    => Len(Inserts(out.log)) = Len(call.questions)

\* push_to_db reported no failure: neither "Database error" nor "Failed to
\* insert questions" (which is also how a failing create_client is reported)
NoInsertFails == out.ui = <<>>

\* C9: a push with non-empty credentials, n >= 1 questions and label L in
\* which no insert fails appends exactly n rows to the table, one per question
\* in list order, each with metadata {"source": L}; what the table held
\* before, the rows of an earlier identical push included, is kept.
C9_PushInsertsEveryRow ==
    ( /\ call.op = "push_to_db"
      /\ TruthyStr(call.supabase_url) /\ TruthyStr(call.supabase_key)
      /\ Len(call.questions) >= 1
      /\ NoInsertFails )
    => LET n == Len(call.questions)
           b == Len(call.before)
       IN  /\ Len(table) = b + n
           /\ SubSeq(table, 1, b) = call.before
           /\ \A i \in 1..n :
                 /\ table[b + i].metadata = << <<"source", call.content_source>> >>
                 /\ table[b + i].question = call.questions[i].question
                 /\ table[b + i].news_context = call.questions[i].news_context
                 /\ table[b + i].tags = call.questions[i].tags
                 /\ BagOf(table[b + i].options) = BagOf(call.questions[i].options)
           /\ call.again => Len(table) >= 2 * n

\* the same one-question push run a second time, both without failure: the
\* table holds the question twice, its own metadata replaced by the label
C9_Witness ==
    /\ call.op = "push_to_db"
    /\ call.again
    /\ NoInsertFails
    /\ Len(call.questions) >= 1
    /\ Len(table) = 2 * Len(call.questions)
    /\ table[1].question = table[2].question
    /\ call.questions[1].metadata # table[2].metadata

-----------------------------------------------------------------------------
(* scrape_news, lines 34-80 *)

urls == <<"tech/artificial-intelligence", "articlelist/msid-79872984,page-1.cms">>

\* An element a find() looks for: found or not, and its text, which is a core
\* with or without white space around it.
Elem(found, pad, core) == [found |-> found, text |-> [pad |-> pad, core |-> core]]

\* get_text(strip=True), lines 59-61
GetTextStrip(e) == e.text.core

\* The story boxes a page may hold (line 51): n of them; the title of box i
\* is start + ((i - 1) % m), so m = 1 repeats one title and a page starting
\* where another ends shares no title with it.  The descriptions of two boxes
\* always differ.  In a page with holes every second box has no <p> and every
\* fourth no <h4>; in a padded page every second title has white space
\* around it.  <time> and the date <span> come and go with i.
StoryBox(u, i, start, m, variant) ==
    [h4 |-> Elem(~(variant = "holes" /\ i % 4 = 3),
                 variant = "padded" /\ i % 2 = 1, start + ((i - 1) % m)),
     p |-> Elem(~(variant = "holes" /\ i % 2 = 0), FALSE, 100 * u + i),
     time |-> Elem(i % 3 = 1, TRUE, 10 + i),
     span |-> Elem(i % 3 = 2, FALSE, 20 + i)]

Pages(u) ==
    {[i \in 1..n |-> StoryBox(u, i, start, m, variant)] :
        n \in 0..MaxArticles, start \in {0, MaxArticles - 1, MaxArticles},
        m \in {1, 2, MaxArticles}, variant \in {"plain", "holes", "padded"}}

\* What the try block of lines 46-67 may meet for one URL: requests.get or
\* raise_for_status raises a RequestException, the parse raises another
\* Exception, or the page's story boxes are found.
FetchOutcomes(u) ==
    {[kind |-> "raise", at |-> "get", exc |-> "RequestException"],
     [kind |-> "raise", at |-> "raise_for_status", exc |-> "RequestException"],
     [kind |-> "raise", at |-> "parse", exc |-> "Exception"]}
    \cup {[kind |-> "page", articles |-> pg] : pg \in Pages(u)}

\* lines 53-67: the items of one page's story boxes
RECURSIVE ExtractItems(_, _)
ExtractItems(articles, news_list) ==
    IF articles = <<>> THEN news_list
    ELSE LET article == Head(articles)
             title_elem == article.h4
             desc_elem == article.p
             date_elem == IF article.time.found THEN article.time ELSE article.span
         IN  IF title_elem.found /\ desc_elem.found
             THEN ExtractItems(Tail(articles),
                      Append(news_list,
                             [title |-> GetTextStrip(title_elem),
                              description |-> GetTextStrip(desc_elem),
                              date |-> IF date_elem.found
                                       THEN <<GetTextStrip(date_elem)>> ELSE <<>>]))
             ELSE ExtractItems(Tail(articles), news_list)

\* Faulty variant: only the except clause of line 68
HandlerRequestOnly(exc) ==
    IF exc = "RequestException" THEN "Error fetching" ELSE "propagate"

\* the except clauses of lines 68-71: the message reported for an exception,
\* or "propagate" when no clause catches it
Handler(exc) ==
    CASE exc = "RequestException" -> "Error fetching"
      [] exc \in {"RequestException", "Exception"} -> "Error processing"
      [] OTHER -> "propagate"

\* One turn of the loop of line 45 for urls[st.pc], with what the try block
\* meets.  st is [pc, news_list, ui, log, raised].
FetchStep(st, outcome) ==
    LET url == urls[st.pc]
        ev == [url |-> url, outcome |-> outcome]
    IN  IF outcome.kind = "page"
        THEN [st EXCEPT !.pc = @ + 1,
                        !.news_list = ExtractItems(outcome.articles, @),
                        !.log = Append(@, ev)]
        ELSE IF Handler(outcome.exc) = "propagate"
        THEN [st EXCEPT !.pc = Len(urls) + 2, !.raised = TRUE, !.log = Append(@, ev)]
        ELSE [st EXCEPT !.pc = @ + 1,
                        !.ui = Append(@, <<Handler(outcome.exc), url>>),
                        !.log = Append(@, ev)]

\* Faulty variant: the loop of lines 75-78 keeping every item, seen or not
DedupLoopKeepsAll(news_list, seen_titles, unique_news) == news_list

\* lines 73-78
RECURSIVE DedupLoop(_, _, _)
DedupLoop(news_list, seen_titles, unique_news) ==
    IF news_list = <<>> THEN unique_news
    ELSE LET news == Head(news_list)
         IN  IF news.title \notin seen_titles
             THEN DedupLoop(Tail(news_list), seen_titles \cup {news.title},
                            Append(unique_news, news))
             ELSE DedupLoop(Tail(news_list), seen_titles, unique_news)

\* unique_news[:10], line 80
Slice(s, n) == SubSeq(s, 1, IF Len(s) < n THEN Len(s) ELSE n)

\* lines 73-80
UniqueNews(news_list) == Slice(DedupLoop(news_list, {}, <<>>), NewsCap)

ScrapeStart == [pc |-> 1, news_list |-> <<>>, ui |-> <<>>, log |-> <<>>, raised |-> FALSE]

\* the whole call, with the outcomes met for the URLs in turn
RECURSIVE ScrapeRun(_, _)
ScrapeRun(st, outcomes) ==
    IF st.pc > Len(urls) THEN st ELSE ScrapeRun(FetchStep(st, outcomes[st.pc]), outcomes)

scrape_news(outcomes) ==
    LET st == ScrapeRun(ScrapeStart, outcomes)
    IN  [ret |-> IF st.raised THEN <<>> ELSE UniqueNews(st.news_list),
         ui |-> st.ui, log |-> st.log, raised |-> st.raised]

(* scrape_news step by step: the call, one step per URL, the return *)

ScrapeCall ==
    /\ call.op = "scrape_news" => out.pc = Len(urls) + 2
    /\ call' = [op |-> "scrape_news"]
    /\ out' = ScrapeStart
    /\ UNCHANGED <<snapshot, table, saved>>

ScrapeFetch ==
    /\ call.op = "scrape_news"
    /\ out.pc <= Len(urls)
    /\ \E outcome \in FetchOutcomes(out.pc) : out' = FetchStep(out, outcome)
    /\ UNCHANGED <<snapshot, table, call, saved>>

ScrapeReturn ==
    /\ call.op = "scrape_news"
    /\ out.pc = Len(urls) + 1
    /\ out' = [pc |-> Len(urls) + 2, news_list |-> out.news_list, ui |-> out.ui,
               log |-> out.log, raised |-> out.raised,
               ret |-> UniqueNews(out.news_list)]
    /\ UNCHANGED <<snapshot, table, call, saved>>

ScrapeNext == ScrapeCall \/ ScrapeFetch \/ ScrapeReturn

SpecScrape == Init /\ [][ScrapeNext]_vars

ScrapeDone == call.op = "scrape_news" /\ out.pc = Len(urls) + 2

\* the places of news_list whose title no earlier place holds
FirstSeen(news_list) ==
    {i \in DOMAIN news_list : \A j \in 1..(i - 1) : news_list[j].title # news_list[i].title}

\* C4: scrape_news returns the first 10 (or all, if fewer) of the items that
\* are the first of their title among the items collected, in the order
\* collected; so no two returned items share a title and at most 10 are
\* returned.
C4_FirstOfEachTitleUpToTen ==
    (ScrapeDone /\ ~out.raised) =>
        LET keep == FirstSeen(out.news_list)
            k == IF Cardinality(keep) < 10 THEN Cardinality(keep) ELSE 10
        IN  /\ Len(out.ret) = k
            /\ \A r \in 1..k :
                  \E i \in keep : /\ Cardinality({j \in keep : j <= i}) = r
                                  /\ out.ret[r] = out.news_list[i]
            /\ \A a, b \in 1..k : out.ret[a].title = out.ret[b].title => a = b
            /\ Len(out.ret) <= 10

\* more than 10 titles were collected, one of them twice with two
\* descriptions, and 10 items were returned
C4_Witness ==
    /\ ScrapeDone
    /\ Len(out.ret) = 10
    /\ Cardinality(FirstSeen(out.news_list)) > 10
    /\ \E i, j \in DOMAIN out.news_list :
          /\ i < j
          /\ out.news_list[i].title = out.news_list[j].title
          /\ out.news_list[i].description # out.news_list[j].description
          /\ \E r \in DOMAIN out.ret : out.ret[r] = out.news_list[i]

\* the items of the pages that were fetched and parsed, in URL order
ItemsOfPages(log) ==
    Concat([i \in DOMAIN log |->
               IF log[i].outcome.kind = "page"
               THEN ExtractItems(log[i].outcome.articles, <<>>) ELSE <<>>])

FailedFetches(log) == SelectSeq(log, LAMBDA e : e.outcome.kind = "raise")

\* C5: whatever fetches and parses fail, scrape_news does not raise: every
\* URL is requested, in order; each failing URL is reported, once, and
\* skipped; and the result is what lines 73-80 make of the items of the URLs
\* that did not fail.
C5_ScrapeNeverRaises ==
    ScrapeDone =>
        /\ ~out.raised
        /\ [i \in DOMAIN out.log |-> out.log[i].url] = urls
        /\ LET failed == FailedFetches(out.log)
           IN  /\ Len(out.ui) = Len(failed)
               /\ \A k \in DOMAIN failed :
                     /\ out.ui[k][2] = failed[k].url
                     /\ out.ui[k][1] \in {"Error fetching", "Error processing"}
        /\ out.ret = UniqueNews(ItemsOfPages(out.log))

\* the parse of the first URL failed and the items of the second were returned
C5_Witness ==
    /\ ScrapeDone
    /\ out.log[1].outcome.kind = "raise"
    /\ out.log[1].outcome.at = "parse"
    /\ out.log[2].outcome.kind = "page"
    /\ Len(out.ret) > 0
    /\ out.ui = << <<"Error processing", urls[1]>> >>

\* both URLs failed, one at the request and one at the status check, and the
\* empty list was returned
C5_WitnessEmpty ==
    /\ ScrapeDone
    /\ \A i \in 1..2 : out.log[i].outcome.kind = "raise"
    /\ out.log[1].outcome.at # out.log[2].outcome.at
    /\ out.ret = <<>>

-----------------------------------------------------------------------------
(* generate_quiz, lines 116-198 *)

\* A text is the sequence of its pieces; " " is white space.
Contents == {<<>>, <<" ">>, <<"news", " ", "text">>}

\* bool(s) of a text
TruthyText(s) == Len(s) > 0

\* What the try block of lines 121-195 may meet: ChatOpenAI(...) raises, the
\* remote call of chain.invoke raises, the parser raises on the response, or
\* the response parses to a QuizQuestionList.
GenOutcomes(lists) ==
    {[raises |-> "ChatOpenAI"], [raises |-> "invoke"], [raises |-> "parse"]}
    \cup {[raises |-> "nothing", parsed |-> ql] : ql \in lists}

\* the calls lines 122-195 make up to the one that raises
GenLog(outcome) ==
    LET ev(c, bad) == [call |-> c, outcome |-> IF outcome.raises = bad THEN "raise" ELSE "ok"]
    IN  CASE outcome.raises = "ChatOpenAI" -> <<ev("ChatOpenAI", "ChatOpenAI")>>
          [] outcome.raises = "invoke" ->
                <<ev("ChatOpenAI", "ChatOpenAI"), ev("invoke", "invoke")>>
          [] OTHER ->
                <<ev("ChatOpenAI", "ChatOpenAI"), ev("invoke", "invoke"),
                  ev("parse", "parse")>>

\* Faulty variant: a handler that reports the failure and raises it again
GenExceptReraises(log) ==
    [ret |-> <<>>, ui |-> <<"Error generating quiz">>, log |-> log, raised |-> TRUE]

\* the except clause of lines 196-198
GenExcept(log) ==
    [ret |-> <<>>, ui |-> <<"Error generating quiz">>, log |-> log, raised |-> FALSE]

\* the guard of line 117
GenGuard(content, num_questions, openai_api_key) ==
    TruthyText(content) /\ TruthyInt(num_questions) /\ TruthyStr(openai_api_key)

\* Returns [ret, ui, log, raised]; ret is the questions of the list returned.
generate_quiz(content, num_questions, openai_api_key, outcome) ==
    IF ~GenGuard(content, num_questions, openai_api_key)
    THEN [ret |-> <<>>, ui |-> <<"Missing required parameters for quiz generation">>,
          log |-> <<>>, raised |-> FALSE]
    ELSE IF outcome.raises # "nothing"
    THEN GenExcept(GenLog(outcome))
    ELSE [ret |-> outcome.parsed, ui |-> <<>>, log |-> GenLog(outcome), raised |-> FALSE]

CallGenerate ==
    \E content \in Contents, num_questions \in 0..MaxQuestions, key \in Creds :
      \E outcome \in (IF GenGuard(content, num_questions, key)
                      THEN GenOutcomes(SeqsUpTo(WideUniverse, MaxQuestions))
                      ELSE {[raises |-> "unused"]}) :
        LET r == generate_quiz(content, num_questions, key, outcome)
        IN  /\ call' = [op |-> "generate_quiz", content |-> content,
                        num_questions |-> num_questions, openai_api_key |-> key,
                        outcome |-> outcome]
            /\ out' = r
            /\ UNCHANGED <<snapshot, table, saved>>

GenerateNext == CallGenerate

SpecGenerate == Init /\ [][GenerateNext]_vars

\* the events of a log that are calls of c
CallsOf(log, c) == SelectSeq(log, LAMBDA e : e.call = c)

\* C6: generate_quiz never raises and makes the remote call at most once; it
\* returns the parsed list when construction, call and parse all succeed,
\* reporting nothing; in every other case (a failure of one of the three, or
\* content, count or credential missing) it reports the failure, once, and
\* returns the empty list, and with an argument missing it calls nothing.
C6_GenerateAllOrNothing ==
    call.op = "generate_quiz" =>
        /\ ~out.raised
        /\ Len(CallsOf(out.log, "invoke")) <= 1
        /\ Len(CallsOf(out.log, "parse")) <= 1
        /\ IF /\ call.content # <<>>
              /\ call.num_questions # 0
              /\ call.openai_api_key \notin {None, ""}
           THEN IF call.outcome.raises = "nothing"
                THEN out.ret = call.outcome.parsed /\ out.ui = <<>>
                ELSE out.ret = <<>> /\ Len(out.ui) = 1
           ELSE out.ret = <<>> /\ Len(out.ui) = 1 /\ out.log = <<>>
        /\ out.ret # <<>> =>
              \A i \in DOMAIN out.log : out.log[i].outcome = "ok"

\* the parse of the one response failed, was reported, and the empty list
\* came back
C6_Witness ==
    /\ call.op = "generate_quiz"
    /\ call.outcome.raises = "parse"
    /\ Len(CallsOf(out.log, "invoke")) = 1
    /\ out.ret = <<>>
    /\ out.ui = <<"Error generating quiz">>

\* call and parse succeeded and the two parsed questions came back
C6_WitnessParsed ==
    /\ call.op = "generate_quiz"
    /\ call.outcome.raises = "nothing"
    /\ Len(out.ret) = 2
    /\ out.ui = <<>>

-----------------------------------------------------------------------------
(* pickle.dump and pickle.load of a QuizQuestionList, lines 204 and 213.    *)
(* The bytes are a sequence of tokens [t, v]: an opcode or class mark, a    *)
(* string, an int or a bool.  A pickle starts with PROTO, ends with STOP,   *)
(* and holds every field of every object, each list behind its length.     *)

Op(v) == [t |-> "op", v |-> v]
Str(v) == [t |-> "str", v |-> v]
Num(v) == [t |-> "int", v |-> v]
Bool(v) == [t |-> "bool", v |-> v]

DumpOption(o) == <<Op("Option"), Str(o.text), Bool(o.correct)>>

DumpQuestion(q) ==
    <<Op("QuizQuestion"), Str(q.question), Num(Len(q.options))>>
    \o Concat([i \in DOMAIN q.options |-> DumpOption(q.options[i])])
    \o <<Str(q.news_context), Num(Len(q.tags))>>
    \o [i \in DOMAIN q.tags |-> Str(q.tags[i])]
    \o <<Num(Len(q.metadata))>>
    \o Concat([i \in DOMAIN q.metadata |->
                  <<Str(q.metadata[i][1]), Str(q.metadata[i][2])>>])

Dumps(questions) ==
    <<Op("PROTO"), Op("QuizQuestionList"), Num(Len(questions))>>
    \o Concat([i \in DOMAIN questions |-> DumpQuestion(questions[i])])
    \o <<Op("STOP")>>

\* the result of reading: ok or not, the value read, the place of the next token
Read(v, pos) == [ok |-> TRUE, value |-> v, pos |-> pos]
ReadFails == [ok |-> FALSE, value |-> <<>>, pos |-> 0]

\* the token at pos is of type t
Is(b, pos, t) == pos <= Len(b) /\ b[pos].t = t

\* the token at pos is the mark m
IsOp(b, pos, m) == Is(b, pos, "op") /\ b[pos].v = m

RECURSIVE ReadOptions(_, _, _, _)
ReadOptions(b, pos, k, acc) ==
    IF k = 0 THEN Read(acc, pos)
    ELSE IF IsOp(b, pos, "Option") /\ Is(b, pos + 1, "str") /\ Is(b, pos + 2, "bool")
    THEN ReadOptions(b, pos + 3, k - 1, Append(acc, Option(b[pos + 1].v, b[pos + 2].v)))
    ELSE ReadFails

RECURSIVE ReadStrs(_, _, _, _)
ReadStrs(b, pos, k, acc) ==
    IF k = 0 THEN Read(acc, pos)
    ELSE IF Is(b, pos, "str") THEN ReadStrs(b, pos + 1, k - 1, Append(acc, b[pos].v))
    ELSE ReadFails

RECURSIVE ReadPairs(_, _, _, _)
ReadPairs(b, pos, k, acc) ==
    IF k = 0 THEN Read(acc, pos)
    ELSE IF Is(b, pos, "str") /\ Is(b, pos + 1, "str")
    THEN ReadPairs(b, pos + 2, k - 1, Append(acc, <<b[pos].v, b[pos + 1].v>>))
    ELSE ReadFails

ReadQuestion(b, pos) ==
    IF ~(IsOp(b, pos, "QuizQuestion") /\ Is(b, pos + 1, "str") /\ Is(b, pos + 2, "int"))
    THEN ReadFails
    ELSE LET os == ReadOptions(b, pos + 3, b[pos + 2].v, <<>>)
         IN  IF ~(os.ok /\ Is(b, os.pos, "str") /\ Is(b, os.pos + 1, "int"))
             THEN ReadFails
             ELSE LET tg == ReadStrs(b, os.pos + 2, b[os.pos + 1].v, <<>>)
                  IN  IF ~(tg.ok /\ Is(b, tg.pos, "int")) THEN ReadFails
                      ELSE LET md == ReadPairs(b, tg.pos + 1, b[tg.pos].v, <<>>)
                           IN  IF ~md.ok THEN ReadFails
                               ELSE Read(QuizQuestion(b[pos + 1].v, os.value,
                                                      b[os.pos].v, tg.value, md.value),
                                         md.pos)

RECURSIVE ReadQuestions(_, _, _, _)
ReadQuestions(b, pos, k, acc) ==
    IF k = 0 THEN Read(acc, pos)
    ELSE LET q == ReadQuestion(b, pos)
         IN  IF q.ok THEN ReadQuestions(b, q.pos, k - 1, Append(acc, q.value))
             ELSE ReadFails

\* pickle.load: the first pickle of the bytes, up to its STOP
Loads(b) ==
    IF ~(IsOp(b, 1, "PROTO") /\ IsOp(b, 2, "QuizQuestionList") /\ Is(b, 3, "int"))
    THEN ReadFails
    ELSE LET qs == ReadQuestions(b, 4, b[3].v, <<>>)
         IN  IF qs.ok /\ IsOp(b, qs.pos, "STOP") THEN qs ELSE ReadFails

-----------------------------------------------------------------------------
(* save_questions, lines 201-206, and load_questions, lines 209-216 *)

\* Faulty variant: open(filename, "ab"): the file is kept and written after its end
OpenAB(file) == [exists |-> TRUE, bytes |-> file.bytes]

\* open(filename, "wb"), line 203: the file is created or cut to no bytes
OpenWB(file) == [exists |-> TRUE, bytes |-> <<>>]

\* how many bytes of a pickle a dump that breaks off may have written
TornAt(bytes) == {0, Len(bytes) - 1}

\* What the try block of lines 202-204 may meet: open raises, the dump
\* raises after writing some of the bytes, or all is written.
SaveOutcomes(questions) ==
    {[raises |-> "open", written |-> 0], [raises |-> "nothing", written |-> 0]}
    \cup {[raises |-> "dump", written |-> k] : k \in TornAt(Dumps(questions))}

\* Returns the file after the call and what was reported.
save_questions(file, questions, outcome) ==
    CASE outcome.raises = "open" ->
            [file |-> file, ui |-> <<"Error saving questions">>, raised |-> FALSE]
      [] outcome.raises = "dump" ->
            [file |-> [OpenWB(file) EXCEPT
                          !.bytes = @ \o SubSeq(Dumps(questions), 1, outcome.written)],
             ui |-> <<"Error saving questions">>, raised |-> FALSE]
      [] OTHER ->
            [file |-> [OpenWB(file) EXCEPT !.bytes = @ \o Dumps(questions)],
             ui |-> <<>>, raised |-> FALSE]

NoneValue == [kind |-> "None", questions |-> <<>>]
ListValue(qs) == [kind |-> "QuizQuestionList", questions |-> qs]

\* Returns what was loaded, or None, and what was reported.
load_questions(file) ==
    IF file.exists
    THEN LET r == Loads(file.bytes)
         IN  IF r.ok THEN [ret |-> ListValue(r.value), ui |-> <<>>, raised |-> FALSE]
             ELSE [ret |-> NoneValue, ui |-> <<"Error loading questions">>,
                   raised |-> FALSE]
    ELSE [ret |-> NoneValue, ui |-> <<>>, raised |-> FALSE]

\* the history of the snapshot's writes after a save_questions
Saved(before, file, questions, outcome) ==
    CASE outcome.raises = "open" -> before
      [] outcome.raises = "dump" ->
            [state |-> "torn", questions |-> questions, replaced |-> FALSE,
             unsaved |-> FALSE]
      [] OTHER ->
            [state |-> "ok", questions |-> questions,
             replaced |-> before.state = "ok" /\ before.questions # questions,
             unsaved |-> FALSE]

CallSave ==
    \E questions \in QuestionLists : \E outcome \in SaveOutcomes(questions) :
        LET r == save_questions(snapshot, questions, outcome)
        IN  /\ snapshot' = r.file
            /\ saved' = Saved(saved, snapshot, questions, outcome)
            /\ call' = [op |-> "save_questions", questions |-> questions,
                        outcome |-> outcome]
            /\ out' = [ui |-> r.ui, log |-> <<>>, raised |-> r.raised]
            /\ UNCHANGED table

CallLoad ==
    LET r == load_questions(snapshot)
    IN  /\ call' = [op |-> "load_questions"]
        /\ out' = [ui |-> r.ui, log |-> <<>>, ret |-> r.ret, raised |-> r.raised]
        /\ UNCHANGED <<snapshot, table, saved>>

SnapshotNext == CallSave \/ CallLoad

SpecSnapshot == Init /\ [][SnapshotNext]_vars

\* C7: load_questions never raises.  When the last write of the snapshot was
\* a save_questions that completed, it returns a list equal, field by field,
\* to that call's argument, whatever was saved before.  When the file does
\* not exist it returns None, and when the file does not deserialize (a dump
\* broke off) it returns None and reports it.
C7_LoadReturnsLastSave ==
    call.op = "load_questions" =>
        /\ ~out.raised
        /\ saved.state = "ok" =>
              /\ out.ret.kind = "QuizQuestionList"
              /\ out.ret.questions = saved.questions
              /\ out.ui = <<>>
        /\ saved.state = "torn" =>
              out.ret.kind = "None" /\ out.ui = <<"Error loading questions">>
        /\ ~snapshot.exists => out.ret.kind = "None" /\ out.ui = <<>>
        /\ saved.state = "none" => ~snapshot.exists

\* a two-question list, saved over a snapshot that held another list, was
\* loaded back
C7_Witness ==
    /\ call.op = "load_questions"
    /\ saved.state = "ok"
    /\ saved.replaced
    /\ Len(saved.questions) = 2
    /\ out.ret.questions = saved.questions

\* a snapshot whose dump broke off before its last byte was not loaded
C7_WitnessTorn ==
    /\ call.op = "load_questions"
    /\ saved.state = "torn"
    /\ Len(snapshot.bytes) > 0
    /\ out.ret.kind = "None"

-----------------------------------------------------------------------------
(* main, lines 219-293: one run of the script, as each interaction starts *)

Choices == {"Scrape news and generate questions",
            "Use custom text to generate questions",
            "Push questions to the database"}

\* what os.getenv finds (lines 223-225): every credential set, or one of the
\* three absent or empty, or none set
Envs ==
    {e \in [{"OPENAI_API_KEY", "SUPABASE_URL", "SUPABASE_KEY"} -> Creds] :
        \/ Cardinality({k \in DOMAIN e : e[k] # "k"}) <= 1
        \/ \A k \in DOMAIN e : e[k] = None}

\* Faulty variant: a guard that looks at the text-generation key alone
ConfigOKOpenAIOnly(env) == TruthyStr(env["OPENAI_API_KEY"])

\* the guard of line 227
ConfigOK(env) ==
    /\ TruthyStr(env["OPENAI_API_KEY"])
    /\ TruthyStr(env["SUPABASE_URL"])
    /\ TruthyStr(env["SUPABASE_KEY"])

\* number_input of line 237, left at its default
NumChoices == {5}

\* the lists the remote model hands main: at most one question
MainLists == SeqsUpTo(QuestionUniverse, 1)

\* what main's fetches meet: a failing request, an empty page, one story box
MainFetchOutcomes(u) ==
    {o \in FetchOutcomes(u) :
        \/ o.kind = "raise" /\ o.at = "get"
        \/ o.kind = "page" /\ Len(o.articles) <= 1
                           /\ \A i \in DOMAIN o.articles :
                                 /\ o.articles[i].h4.text = [pad |-> FALSE, core |-> 0]}

\* the outcomes of the fetches of one scrape_news of main, one per URL
MainFetches ==
    {f \in [DOMAIN urls -> UNION {MainFetchOutcomes(u) : u \in DOMAIN urls}] :
        \A u \in DOMAIN urls : f[u] \in MainFetchOutcomes(u)}

\* lines 244-247: the news items joined into one text
RECURSIVE FormatNews(_)
FormatNews(news_list) ==
    IF news_list = <<>> THEN <<>>
    ELSE LET news == Head(news_list)
             one == <<"Date: ">> \o news.date \o <<"\nTitle: ", news.title,
                      "\nDescription: ", news.description>>
         IN  IF Tail(news_list) = <<>> THEN one
             ELSE one \o <<"\n\n">> \o FormatNews(Tail(news_list))

\* custom_text.strip(), line 265
RECURSIVE Strip(_)
Strip(text) ==
    IF text = <<>> THEN <<>>
    ELSE IF Head(text) = " " THEN Strip(Tail(text))
    ELSE IF text[Len(text)] = " " THEN Strip(SubSeq(text, 1, Len(text) - 1))
    ELSE text

\* Faulty variant: saving whatever generate_quiz returned
ShouldSaveAlways(questions) == TRUE

\* the test of lines 252 and 268: a QuizQuestionList object is true, so the
\* test is that of its questions
ShouldSave(questions) == TruthyList(questions)

\* the texts of scrape_news's reports
Texts(ui) == [i \in DOMAIN ui |-> ui[i][1]]

Event(c) == [call |-> c]

\* Lines 251-258 and 267-275: generate, and save what was generated.
\* Returns [file, ui, log, generated, save].  (A value an action uses more
\* than once is bound by \E over the set that holds it alone.)
GenerateAndSave(file, content, num_questions, openai_api_key, gen, save) ==
    LET g == generate_quiz(content, num_questions, openai_api_key, gen)
    IN  IF ShouldSave(g.ret)
        THEN LET w == save_questions(file, g.ret, save)
             IN  [file |-> w.file,
                  ui |-> g.ui \o <<"Generated questions!">> \o w.ui,
                  log |-> <<Event("generate_quiz"), Event("save_questions")>>,
                  generated |-> g.ret, save |-> save.raises]
        ELSE [file |-> file,
              ui |-> g.ui \o <<"No questions generated!">>,
              log |-> <<Event("generate_quiz")>>,
              generated |-> g.ret, save |-> "not called"]

\* the outcomes a generation and its save consume
GenSaveOutcomes ==
    {<<g, w>> \in GenOutcomes(MainLists) \X
                  UNION {SaveOutcomes(ql) : ql \in MainLists} :
        IF g.raises = "nothing" /\ ShouldSave(g.parsed)
        THEN w \in SaveOutcomes(g.parsed)
        ELSE w = [raises |-> "open", written |-> 0]}

\* the history after a generate action: the save's, or a mark that the
\* action left the snapshot as it was
AfterGenerate(before, file, r, save) ==
    IF r.save = "not called" THEN [before EXCEPT !.unsaved = TRUE]
    ELSE IF r.save = "open" THEN [before EXCEPT !.unsaved = TRUE]
    ELSE Saved(before, file, r.generated, save)

NoPush == [questions |-> <<>>, log |-> <<>>]

MainCall(env, choice, pressed, num_questions, custom_text, content_source) ==
    [op |-> "main", env |-> env, choice |-> choice, pressed |-> pressed,
     num_questions |-> num_questions, custom_text |-> custom_text,
     content_source |-> content_source]

\* lines 227-229: a credential is missing; nothing else of main runs
MainMissingConfig ==
    \E env \in {e \in Envs : ~ConfigOK(e)}, choice \in Choices, pressed \in BOOLEAN :
        /\ ~ConfigOK(env)
        /\ call' = MainCall(env, choice, pressed, 5, <<>>, "Scraped News")
        /\ out' = [kind |-> "missing_config", ui |-> <<"Missing configuration">>,
                   log |-> <<>>, generated |-> <<>>, pushed |-> NoPush]
        /\ UNCHANGED <<snapshot, table, saved>>

\* no button is pressed: the widgets are drawn and nothing runs
MainIdle ==
    \E env \in {e \in Envs : ConfigOK(e)}, choice \in Choices,
       num_questions \in NumChoices :
        /\ ConfigOK(env)
        /\ call' = MainCall(env, choice, FALSE, num_questions, <<>>, "Scraped News")
        /\ out' = [kind |-> "idle", ui |-> <<>>, log |-> <<>>,
                   generated |-> <<>>, pushed |-> NoPush]
        /\ UNCHANGED <<snapshot, table, saved>>

\* lines 239-260, "Scrape and Generate" pressed
MainScrapeAndGenerate ==
    \E env \in {e \in Envs : ConfigOK(e)}, num_questions \in NumChoices,
       fetched \in MainFetches :
        /\ ConfigOK(env)
        /\ \E s \in {scrape_news(fetched)} :
           LET news_list == s.ret
               c == MainCall(env, "Scrape news and generate questions", TRUE,
                             num_questions, <<>>, "Scraped News")
           IN  IF TruthyList(news_list)
               THEN \E gw \in GenSaveOutcomes :
                    \E r \in {GenerateAndSave(snapshot, FormatNews(news_list),
                                   num_questions, env["OPENAI_API_KEY"], gw[1], gw[2])} :
                          /\ snapshot' = r.file
                          /\ saved' = AfterGenerate(saved, snapshot, r, gw[2])
                          /\ call' = c
                          /\ out' = [kind |-> "generated",
                                     ui |-> Texts(s.ui) \o <<"Found articles">> \o r.ui,
                                     log |-> <<Event("scrape_news")>> \o r.log,
                                     generated |-> r.generated, pushed |-> NoPush]
               ELSE /\ snapshot' = snapshot
                    /\ saved' = [saved EXCEPT !.unsaved = TRUE]
                    /\ call' = c
                    /\ out' = [kind |-> "no_news",
                               ui |-> Texts(s.ui) \o <<"No news articles found!">>,
                               log |-> <<Event("scrape_news")>>,
                               generated |-> <<>>, pushed |-> NoPush]
        /\ UNCHANGED table

\* lines 262-277, "Generate from Custom Text" pressed
MainCustomText ==
    \E env \in {e \in Envs : ConfigOK(e)}, num_questions \in NumChoices,
       custom_text \in Contents :
        /\ ConfigOK(env)
        /\ LET c == MainCall(env, "Use custom text to generate questions", TRUE,
                             num_questions, custom_text, "Custom Text")
           IN  IF TruthyText(Strip(custom_text))
               THEN \E gw \in GenSaveOutcomes :
                    \E r \in {GenerateAndSave(snapshot, custom_text, num_questions,
                                   env["OPENAI_API_KEY"], gw[1], gw[2])} :
                          /\ snapshot' = r.file
                          /\ saved' = AfterGenerate(saved, snapshot, r, gw[2])
                          /\ call' = c
                          /\ out' = [kind |-> "generated", ui |-> r.ui, log |-> r.log,
                                     generated |-> r.generated, pushed |-> NoPush]
               ELSE /\ snapshot' = snapshot
                    /\ saved' = [saved EXCEPT !.unsaved = TRUE]
                    /\ call' = c
                    /\ out' = [kind |-> "no_text",
                               ui |-> <<"Please enter some text to generate questions.">>,
                               log |-> <<>>, generated |-> <<>>, pushed |-> NoPush]
        /\ UNCHANGED table

\* lines 279-293, "Push to Database" pressed
MainPush ==
    \E env \in {e \in Envs : ConfigOK(e)}, num_questions \in NumChoices,
       content_source \in Sources :
        /\ ConfigOK(env)
        /\ \E l \in {load_questions(snapshot)} :
           LET questions == l.ret
               c == MainCall(env, "Push questions to the database", TRUE,
                             num_questions, <<>>, content_source)
           IN  IF questions.kind # "None" /\ TruthyList(questions.questions)
               THEN /\ Len(table) + Len(questions.questions) <= MaxMainRows
                    /\ \E client \in BOOLEAN :
                       \E perms \in (IF client THEN PermSeqs(questions.questions)
                                     ELSE {<<>>}),
                          inserts \in (IF client
                                       THEN InsertOutcomeSeqs(Len(questions.questions))
                                       ELSE {<<>>}) :
                       \E o \in {Construct(questions.questions, EmptyHeap)} :
                       \E r \in {push_to_db(o.heap, table, o.ids, env["SUPABASE_URL"],
                                             env["SUPABASE_KEY"], content_source,
                                             client, perms, inserts)} :
                             /\ table' = r.table
                             /\ call' = c
                             /\ out' = [kind |-> "pushed",
                                        ui |-> l.ui \o r.ui
                                               \o <<"Questions pushed successfully!">>,
                                        log |-> <<Event("load_questions"),
                                                  Event("push_to_db")>>,
                                        generated |-> <<>>,
                                        pushed |-> [questions |-> questions.questions,
                                                    log |-> r.log]]
               ELSE /\ table' = table
                    /\ call' = c
                    /\ out' = [kind |-> "nothing_to_push",
                               ui |-> l.ui \o <<"No questions available to push.">>,
                               log |-> <<Event("load_questions")>>,
                               generated |-> <<>>, pushed |-> NoPush]
        /\ UNCHANGED <<snapshot, saved>>

Next ==
    \/ MainMissingConfig
    \/ MainIdle
    \/ MainScrapeAndGenerate
    \/ MainCustomText
    \/ MainPush

Spec == Init /\ [][Next]_vars

\* a credential main reads is absent or empty
SomeCredentialMissing(env) == \E k \in DOMAIN env : env[k] = None \/ env[k] = ""

\* C8: when one of the three credentials is absent or empty, whatever is
\* selected and whether or not a button is pressed, main calls nothing (no
\* scrape, generation, snapshot read or write, or push) and shows the one
\* missing-configuration message.
C8_MissingConfigRunsNothing ==
    (call.op = "main" /\ SomeCredentialMissing(call.env)) =>
        /\ out.log = <<>>
        /\ out.pushed = NoPush
        /\ out.generated = <<>>
        /\ out.ui = <<"Missing configuration">>

\* the remote-table key alone is empty, push is selected and its button pressed
C8_Witness ==
    /\ call.op = "main"
    /\ call.env["SUPABASE_KEY"] = ""
    /\ call.env["OPENAI_API_KEY"] = "k"
    /\ call.env["SUPABASE_URL"] = "k"
    /\ call.choice = "Push questions to the database"
    /\ call.pressed
    /\ saved.state = "ok"
    /\ out.ui = <<"Missing configuration">>

\* the question an insert row was made of
RowIsOf(row, q) ==
    /\ row.question = q.question
    /\ row.news_context = q.news_context
    /\ row.tags = q.tags
    /\ BagOf(row.options) = BagOf(q.options)

\* C10: in main only a generate action whose generate_quiz returned questions
\* writes the snapshot, every other step leaves it as it is; so what a push
\* hands to push_to_db, and every row it inserts, is of the last non-empty
\* generation whose save completed.
C10_OnlyGenerationWritesSnapshot ==
    /\ [][snapshot' # snapshot =>
             /\ call'.op = "main"
             /\ call'.pressed
             /\ call'.choice \in {"Scrape news and generate questions",
                                  "Use custom text to generate questions"}
             /\ out'.generated # <<>>]_vars
    /\ []((call.op = "main" /\ out.kind = "pushed") =>
             /\ saved.state = "ok"
             /\ out.pushed.questions = saved.questions
             /\ LET ins == Inserts(out.pushed.log)
                IN  /\ Len(ins) <= Len(saved.questions)
                    /\ \A i \in DOMAIN ins : RowIsOf(ins[i].row, saved.questions[i]))

\* after one generation replaced the snapshot of another and a later
\* generate action ended without writing, a push inserted the question of
\* the generation that wrote last
C10_Witness ==
    /\ call.op = "main"
    /\ out.kind = "pushed"
    /\ saved.replaced
    /\ saved.unsaved
    /\ Len(table) = 1
    /\ table[1].question = saved.questions[1].question

=============================================================================
